---------------------------- MODULE Spec2Model ----------------------------
(***************************************************************************)
(* Model of the ITSM triage core of src/extra/itsm_mcp_server.py: the      *)
(* severity matrix, the category classifier, the KB ranker, the next-steps *)
(* synthesizer, the research-plan builder, the in-memory case store and    *)
(* the two tools and the resource that use them.                           *)
(*                                                                         *)
(* Python strings that the code trims, lower-cases, concatenates or        *)
(* searches are sequences of one-character strings, so that strip(),       *)
(* lower() and the `in` substring test are computed, not assumed.  String  *)
(* literals the code only copies (step texts, hypotheses, article ids) are *)
(* TLA+ strings.                                                           *)
(***************************************************************************)
EXTENDS Integers, Sequences, FiniteSets, TLC

VARIABLES
    _CASE_STORE,   \* the module-level dict: case_id -> case entry
    audit_file,    \* the JSONL audit file: the sequence of records appended
    clock,         \* the wall clock read by _now_ms()
    call,          \* the last completed call: function, arguments, result
    returned,      \* history: what each create_research_plan call returned
    packs,         \* history: the arguments and result of each incident_pack call
    threads        \* the create_research_plan calls in progress, one per worker

vars == <<_CASE_STORE, audit_file, clock, call, returned, packs, threads>>

---------------------------------------------------------------------------
(* Python values *)

\* Python's None; not a sequence of characters.
None == <<"None">>

\* Truthiness of an Optional[str]: None and "" are falsy.
Truthy(s) == s # None /\ s # <<>>

\* (s or "")
OrEmpty(s) == IF Truthy(s) THEN s ELSE <<>>

UpperChars == <<"A", "B", "C", "D", "E", "F", "G", "H", "I", "J", "K", "L", "M",
                "N", "O", "P", "Q", "R", "S", "T", "U", "V", "W", "X", "Y", "Z">>

LowerChars == <<"a", "b", "c", "d", "e", "f", "g", "h", "i", "j", "k", "l", "m",
                "n", "o", "p", "q", "r", "s", "t", "u", "v", "w", "x", "y", "z">>

\* The characters str.strip() removes (the ASCII ones).
Whitespace == {" ", "\t", "\n", "\r"}

\* The lower-case letter of each upper-case letter.
LowerOf ==
    [c \in {UpperChars[i] : i \in 1..Len(UpperChars)} |->
        LowerChars[CHOOSE i \in 1..Len(UpperChars) : UpperChars[i] = c]]

\* The upper-case letter of each lower-case letter.
UpperOf ==
    [c \in {LowerChars[i] : i \in 1..Len(LowerChars)} |->
        UpperChars[CHOOSE i \in 1..Len(LowerChars) : LowerChars[i] = c]]

LowerChar(c) == IF c \in DOMAIN LowerOf THEN LowerOf[c] ELSE c

\* str.lower()
Lower(s) == [i \in 1..Len(s) |-> LowerChar(s[i])]

UpperChar(c) == IF c \in DOMAIN UpperOf THEN UpperOf[c] ELSE c

\* str.upper()
Upper(s) == [i \in 1..Len(s) |-> UpperChar(s[i])]

\* str.strip(): drop leading and trailing whitespace.
Strip(s) ==
    LET keep == {i \in 1..Len(s) : s[i] \notin Whitespace}
    IN  IF keep = {} THEN <<>>
        ELSE LET first == CHOOSE i \in keep : \A j \in keep : i <= j
                 last  == CHOOSE i \in keep : \A j \in keep : j <= i
             IN  SubSeq(s, first, last)

\* `k in t` for strings: k occurs in t as a contiguous substring.
Contains(t, k) ==
    \E i \in 1..(Len(t) - Len(k) + 1) : SubSeq(t, i, i + Len(k) - 1) = k

\* f"{a}\n{b}"
JoinNewline(a, b) == a \o <<"\n">> \o b

Min(a, b) == IF a < b THEN a ELSE b

Max(a, b) == IF a > b THEN a ELSE b

\* list[:n] for n >= 0
Prefix(s, n) == SubSeq(s, 1, Min(n, Len(s)))

---------------------------------------------------------------------------
(* String constants of the code *)

critical == <<"c", "r", "i", "t", "i", "c", "a", "l">>

high == <<"h", "i", "g", "h">>

medium == <<"m", "e", "d", "i", "u", "m">>

low == <<"l", "o", "w">>

network == <<"n", "e", "t", "w", "o", "r", "k">>

identity_access ==
    <<"i", "d", "e", "n", "t", "i", "t", "y", "_", "a", "c", "c", "e", "s", "s">>

platform == <<"p", "l", "a", "t", "f", "o", "r", "m">>

email_collaboration ==
    <<"e", "m", "a", "i", "l", "_", "c", "o", "l", "l", "a", "b", "o", "r", "a",
      "t", "i", "o", "n">>

general == <<"g", "e", "n", "e", "r", "a", "l">>

NetworkKeywords ==
    << <<"v", "p", "n">>,
       <<"w", "i", "f", "i">>,
       <<"n", "e", "t", "w", "o", "r", "k">>,
       <<"d", "n", "s">>,
       <<"l", "a", "t", "e", "n", "c", "y">>,
       <<"p", "a", "c", "k", "e", "t", " ", "l", "o", "s", "s">> >>

IdentityKeywords ==
    << <<"l", "o", "g", "i", "n">>,
       <<"s", "s", "o">>,
       <<"o", "a", "u", "t", "h">>,
       <<"s", "a", "m", "l">>,
       <<"p", "a", "s", "s", "w", "o", "r", "d">>,
       <<"m", "f", "a">>,
       <<"2", "f", "a">> >>

PlatformKeywords ==
    << <<"k", "u", "b", "e", "r", "n", "e", "t", "e", "s">>,
       <<"k", "8", "s">>,
       <<"d", "o", "c", "k", "e", "r">>,
       <<"c", "o", "n", "t", "a", "i", "n", "e", "r">>,
       <<"p", "o", "d">>,
       <<"d", "e", "p", "l", "o", "y", "m", "e", "n", "t">> >>

EmailKeywords ==
    << <<"e", "m", "a", "i", "l">>,
       <<"o", "u", "t", "l", "o", "o", "k">>,
       <<"e", "x", "c", "h", "a", "n", "g", "e">>,
       <<"m", "a", "i", "l", "b", "o", "x">> >>

\* any(k in t for k in keywords)
AnyIn(keywords, t) == \E i \in 1..Len(keywords) : Contains(t, keywords[i])

---------------------------------------------------------------------------
(* Pure functions *)

_norm(s) == Lower(Strip(OrEmpty(s)))

\* Faulty variant: the (medium|low, high) half of the second rule is missing.
_severity_from_impact_urgency_medium_high_bug(impact, urgency) ==
    LET i == _norm(impact)
        u == _norm(urgency)
    IN  IF i = high /\ u = high THEN critical
        ELSE IF i = high /\ u \in {medium, low} THEN high
        ELSE IF i = medium /\ u = medium THEN medium
        ELSE low

_severity_from_impact_urgency(impact, urgency) ==
    LET i == _norm(impact)
        u == _norm(urgency)
    IN  IF i = high /\ u = high THEN critical
        ELSE IF (i = high /\ u \in {medium, low}) \/ (u = high /\ i \in {medium, low})
             THEN high
        ELSE IF i = medium /\ u = medium THEN medium
        ELSE low

\* Faulty variant: the identity family is tried before the network family.
_category_guess_identity_first(text) ==
    LET t == Lower(OrEmpty(text))
    IN  IF AnyIn(IdentityKeywords, t) THEN identity_access
        ELSE IF AnyIn(NetworkKeywords, t) THEN network
        ELSE IF AnyIn(PlatformKeywords, t) THEN platform
        ELSE IF AnyIn(EmailKeywords, t) THEN email_collaboration
        ELSE general

_category_guess(text) ==
    LET t == Lower(OrEmpty(text))
    IN  IF AnyIn(NetworkKeywords, t) THEN network
        ELSE IF AnyIn(IdentityKeywords, t) THEN identity_access
        ELSE IF AnyIn(PlatformKeywords, t) THEN platform
        ELSE IF AnyIn(EmailKeywords, t) THEN email_collaboration
        ELSE general

BaseSteps ==
    << "Confirm scope (how many users/regions) and exact start time",
       "Capture exact error message(s) + timestamps",
       "Check monitoring/status for related service health" >>

BridgeStep == "Start incident bridge and assign an incident commander (IC)"

\* The step that the if/elif/else on the category appends.
CategoryStep(cat) ==
    IF cat = identity_access THEN "Check IdP logs and recent SSO config/cert changes"
    ELSE IF cat = network THEN "Check VPN/DNS health and region-specific impact"
    ELSE IF cat = platform
         THEN "Check recent deploys and service error-rate/latency graphs"
    ELSE "Identify any recent changes and known workarounds"

\* Faulty variant: base[-4:], which keeps the last four steps.
_triage_next_steps_keep_last(category, severity) ==
    LET cat  == _norm(category)
        sev  == _norm(severity)
        base == Append(BaseSteps, CategoryStep(cat))
        all  == IF sev \in {critical, high} THEN <<BridgeStep>> \o base ELSE base
    IN  SubSeq(all, Len(all) - 3, Len(all))

\* Faulty variant: the bridge step is appended, not inserted at index 0.
_triage_next_steps_append_bridge(category, severity) ==
    LET cat  == _norm(category)
        sev  == _norm(severity)
        base == Append(BaseSteps, CategoryStep(cat))
        all  == IF sev \in {critical, high} THEN Append(base, BridgeStep) ELSE base
    IN  Prefix(all, 4)

_triage_next_steps(category, severity) ==
    LET cat  == _norm(category)
        sev  == _norm(severity)
        base == Append(BaseSteps, CategoryStep(cat))
        all  == IF sev \in {critical, high} THEN <<BridgeStep>> \o base ELSE base
    IN  Prefix(all, 4)

---------------------------------------------------------------------------
(* KB ranker *)

\* The catalog, in the dict's insertion order.
_kb_catalog ==
    << [id         |-> "kb-1001",
        title      |-> <<"V", "P", "N", " ", "T", "r", "o", "u", "b", "l", "e", "s",
                         "h", "o", "o", "t", "i", "n", "g">>,
        tags       |-> << <<"v", "p", "n">>,
                          <<"n", "e", "t", "w", "o", "r", "k">>,
                          <<"c", "o", "n", "n", "e", "c", "t", "i", "v", "i", "t", "y">> >>,
        categories |-> <<network>>],
       [id         |-> "kb-2001",
        title      |-> <<"S", "S", "O", " ", "L", "o", "g", "i", "n", " ", "F", "a",
                         "i", "l", "u", "r", "e", "s">>,
        tags       |-> << <<"s", "s", "o">>,
                          <<"s", "a", "m", "l">>,
                          <<"o", "a", "u", "t", "h">>,
                          <<"m", "f", "a">>,
                          <<"l", "o", "g", "i", "n">> >>,
        categories |-> <<identity_access>>],
       [id         |-> "kb-3001",
        title      |-> <<"P", "a", "s", "s", "w", "o", "r", "d", " ", "R", "e", "s",
                         "e", "t", " ", "(", "S", "t", "a", "n", "d", "a", "r", "d", ")">>,
        tags       |-> << <<"p", "a", "s", "s", "w", "o", "r", "d">>,
                          <<"l", "o", "g", "i", "n">>,
                          <<"m", "f", "a">> >>,
        categories |-> <<identity_access>>] >>

\* x in list
InList(x, list) == \E i \in 1..Len(list) : list[i] = x

\* The score the loop body computes for one article.
ArticleScore(meta, cat, q) ==
    (IF InList(cat, meta.categories) THEN 3 ELSE 0)
    + 2 * Cardinality({i \in 1..Len(meta.tags) : Contains(q, meta.tags[i])})
    + (IF Contains(q, Lower(meta.title)) THEN 1 ELSE 0)

\* Faulty variant: sorted ascending and then reversed, which also reverses the
\* order of pairs of equal score.
SortByScoreDesc_reversed_ties(scored) ==
    LET n == Len(scored)
        pos(i) == 1 + Cardinality({j \in 1..n : scored[j][2] > scored[i][2]})
                    + Cardinality({j \in (i + 1)..n : scored[j][2] = scored[i][2]})
    IN  [p \in 1..n |-> scored[CHOOSE i \in 1..n : pos(i) = p]]

\* Faulty variant: reverse=True is missing, so the lowest score comes first.
SortByScoreDesc_ascending(scored) ==
    LET n == Len(scored)
        pos(i) == 1 + Cardinality({j \in 1..n : scored[j][2] < scored[i][2]})
                    + Cardinality({j \in 1..(i - 1) : scored[j][2] = scored[i][2]})
    IN  [p \in 1..n |-> scored[CHOOSE i \in 1..n : pos(i) = p]]

\* scored.sort(key=lambda x: x[1], reverse=True): a stable sort, so pairs of
\* equal score keep their order.
SortByScoreDesc(scored) ==
    LET n == Len(scored)
        pos(i) == 1 + Cardinality({j \in 1..n : scored[j][2] > scored[i][2]})
                    + Cardinality({j \in 1..(i - 1) : scored[j][2] = scored[i][2]})
    IN  [p \in 1..n |-> scored[CHOOSE i \in 1..n : pos(i) = p]]

PositiveScore(pair) == pair[2] > 0

\* Faulty variant: the s > 0 filter is missing.
_rank_kb_pad_with_zero(category, query_text, max_results) ==
    LET cat     == _norm(category)
        q       == Lower(OrEmpty(query_text))
        catalog == _kb_catalog
        scored  == [i \in 1..Len(catalog) |->
                       <<catalog[i].id, ArticleScore(catalog[i], cat, q)>>]
        sorted  == SortByScoreDesc(scored)
        top     == Prefix(sorted, Max(1, Min(max_results, 10)))
    IN  [i \in 1..Len(top) |-> top[i][1]]

_rank_kb(category, query_text, max_results) ==
    LET cat     == _norm(category)
        q       == Lower(OrEmpty(query_text))
        catalog == _kb_catalog
        scored  == [i \in 1..Len(catalog) |->
                       <<catalog[i].id, ArticleScore(catalog[i], cat, q)>>]
        sorted  == SortByScoreDesc(scored)
        top     == Prefix(SelectSeq(sorted, PositiveScore), Max(1, Min(max_results, 10)))
    IN  [i \in 1..Len(top) |-> top[i][1]]

---------------------------------------------------------------------------
(* Research plan builder *)

PlanBridgeCheck == "Start incident bridge and establish comms cadence"

PlanImpactEvidence == "Business impact summary + blast radius estimate"

\* The note; the source writes the apostrophe as U+2019.
PlanNote == "Guidance only. Follow your org's incident process."

\* The (hypotheses, checks, evidence) triple the if/elif/else selects.
PlanTemplate(category) ==
    IF category = identity_access THEN
        [hypotheses |-> << "Identity provider issue or outage",
                           "Recent SSO config/cert change",
                           "Clock skew causing token validity failures" >>,
         checks     |-> << "Check IdP status + auth error patterns",
                           "Review recent SSO changes (SAML/OAuth/certs)",
                           "Validate time sync (NTP) for key systems" >>,
         evidence   |-> << "Exact error text + timestamps + impacted app URL",
                           "Auth log excerpts and request IDs if available",
                           "List of affected users/groups/regions" >>]
    ELSE IF category = network THEN
        [hypotheses |-> << "Regional ISP issue", "VPN gateway saturation", "DNS issue" >>,
         checks     |-> << "Check network dashboards",
                           "Compare affected vs unaffected regions",
                           "Validate DNS resolution paths" >>,
         evidence   |-> << "Traceroute/ping from affected users",
                           "VPN gateway metrics",
                           "Time window + location map" >>]
    ELSE IF category = platform THEN
        [hypotheses |-> << "Recent deploy regression", "Dependency outage",
                           "Resource exhaustion" >>,
         checks     |-> << "Review recent deploys", "Check service metrics/logs",
                           "Verify dependencies health" >>,
         evidence   |-> << "Service logs around onset", "Dashboard screenshots",
                           "Deployment IDs/change records" >>]
    ELSE
        [hypotheses |-> << "Misconfiguration", "Transient outage", "User-specific issue" >>,
         checks     |-> << "Confirm scope/timeframe", "Check status dashboards",
                           "Review recent changes" >>,
         evidence   |-> << "Error text + timestamps", "User/device context",
                           "Steps already tried" >>]

\* Faulty variant: the escalation items are appended, not inserted at index 0.
_build_research_plan_append(category, severity, short_description, details) ==
    LET cat      == _norm(category)
        sev      == _norm(severity)
        context  == Strip(JoinNewline(short_description, details))
        template == PlanTemplate(cat)
        escalate == sev \in {critical, high}
    IN  [category            |-> cat,
         severity            |-> sev,
         incident_context    |-> context,
         hypotheses          |-> template.hypotheses,
         checks              |-> IF escalate
                                 THEN Append(template.checks, PlanBridgeCheck)
                                 ELSE template.checks,
         evidence_to_collect |-> IF escalate
                                 THEN Append(template.evidence, PlanImpactEvidence)
                                 ELSE template.evidence,
         note                |-> PlanNote]

_build_research_plan(category, severity, short_description, details) ==
    LET cat      == _norm(category)
        sev      == _norm(severity)
        context  == Strip(JoinNewline(short_description, details))
        template == PlanTemplate(cat)
        escalate == sev \in {critical, high}
    IN  [category            |-> cat,
         severity            |-> sev,
         incident_context    |-> context,
         hypotheses          |-> template.hypotheses,
         checks              |-> IF escalate
                                 THEN <<PlanBridgeCheck>> \o template.checks
                                 ELSE template.checks,
         evidence_to_collect |-> IF escalate
                                 THEN <<PlanImpactEvidence>> \o template.evidence
                                 ELSE template.evidence,
         note                |-> PlanNote]

---------------------------------------------------------------------------
(* The case store, the audit file and the clock *)

\* _now_ms(): the clock is read and time moves on.
_now_ms == clock

\* Faulty variant: the file opened with "w", which drops the earlier records.
_audit_truncate(file, ts_ms, event_type, payload) ==
    <<[ts_ms |-> ts_ms, event_type |-> event_type, payload |-> payload]>>

\* _audit(event_type, payload): one record appended to the file.
_audit(file, ts_ms, event_type, payload) ==
    Append(file, [ts_ms |-> ts_ms, event_type |-> event_type, payload |-> payload])

\* Faulty variant: the store rebound to a new dict holding only the new entry.
StorePut_reset(store, key, entry) ==
    [k \in {key} |-> entry]

\* Faulty variant: dict.setdefault, which keeps the entry a key already has.
StorePut_keep_existing(store, key, entry) ==
    IF key \in DOMAIN store THEN store
    ELSE [k \in DOMAIN store \cup {key} |-> IF k = key THEN entry ELSE store[k]]

\* store[key] = entry: inserts, or replaces the entry the key already has.
StorePut(store, key, entry) ==
    [k \in DOMAIN store \cup {key} |-> IF k = key THEN entry ELSE store[k]]

CasePrefix == <<"C", "A", "S", "E", "-">>

\* The number of hex digits kept of a uuid4.
HexKept == 10

\* The hex digits, as uuid.hex writes them.
HexDigits == <<"a", "b", "c", "d", "e", "f", "0", "1", "2", "3", "4", "5", "6",
               "7", "8", "9">>

\* How many of the 16^10 values of uuid4().hex[:10] the model draws from.
NumUuids == 2

\* uuid.uuid4().hex[:10]: a random value; the n-th of the values drawn from.
Uuid4Hex(n) == [i \in 1..HexKept |-> IF i = HexKept THEN HexDigits[n] ELSE "0"]

Uuids == {Uuid4Hex(n) : n \in 1..NumUuids}

\* f"CASE-{uuid.uuid4().hex[:10].upper()}"
NewCaseId(hex) == CasePrefix \o Upper(hex)

\* category or _category_guess(f"{short_description}\n{details}")
ResolveCategory(category, short_description, details) ==
    IF Truthy(category) THEN category
    ELSE _category_guess(JoinNewline(short_description, details))

\* Faulty variant: impact and urgency are looked at before the severity.
ResolveSeverity_matrix_first(severity, impact, urgency) ==
    IF Truthy(impact) /\ Truthy(urgency)
    THEN _severity_from_impact_urgency(impact, urgency)
    ELSE IF Truthy(severity) THEN _norm(severity)
    ELSE medium

\* The if/elif/else that sets sev.
ResolveSeverity(severity, impact, urgency) ==
    IF Truthy(severity) THEN _norm(severity)
    ELSE IF Truthy(impact) /\ Truthy(urgency)
         THEN _severity_from_impact_urgency(impact, urgency)
    ELSE medium

\* f"itsm://cases/{case_id}/research-plan"
CaseUri(case_id) == <<"itsm://cases/", case_id, "/research-plan">>

\* f"itsm://kb/{aid}"
KbUri(aid) == <<"itsm://kb/", aid>>

NotFoundText == "No research plan found for case_id="

FoundText == "# Research Plan: "

\* Faulty variant: no `if not entry` test, so an empty plan is rendered.
RenderNotFound_empty_plan(case_id) ==
    << FoundText, case_id,
       "## Context", <<>>,
       "## Category / Severity", <<>>, <<>>,
       "## Hypotheses", <<>>,
       "## Checks", <<>>,
       "## Evidence to Collect", <<>>,
       "## Note", "" >>

\* The text case_research_plan returns when the store has no entry.
RenderNotFound(case_id) ==
    <<NotFoundText, case_id, ". Create one via tool create_research_plan().">>

\* "\n".join(f"- {x}" for x in items)
Bullets(items) == [i \in 1..Len(items) |-> <<"- ", items[i]>>]

\* The text case_research_plan returns for an entry: the pieces of the
\* f-string, in order.
RenderPlan(cid, plan) ==
    << FoundText, cid,
       "## Context", plan.incident_context,
       "## Category / Severity", plan.category, plan.severity,
       "## Hypotheses", Bullets(plan.hypotheses),
       "## Checks", Bullets(plan.checks),
       "## Evidence to Collect", Bullets(plan.evidence_to_collect),
       "## Note", plan.note >>

\* cid = (case_id or "").strip()
LookupKey(case_id) == Strip(OrEmpty(case_id))

\* What case_research_plan returns in a given store.
ReadPlan(store, case_id) ==
    LET cid == LookupKey(case_id)
    IN  IF cid \notin DOMAIN store THEN RenderNotFound(case_id)
        ELSE RenderPlan(cid, store[cid].plan)

---------------------------------------------------------------------------
(* Inputs *)

\* Values a caller passes for impact and urgency: None, "", low, medium, high,
\* "High", " HIGH\n", "\tMedium ", critical, urgent.
EnumInputs ==
    { None,
      <<>>,
      <<"l", "o", "w">>,
      <<"m", "e", "d", "i", "u", "m">>,
      <<"h", "i", "g", "h">>,
      <<"H", "i", "g", "h">>,
      <<" ", "H", "I", "G", "H", "\n">>,
      <<"\t", "M", "e", "d", "i", "u", "m", " ">>,
      <<"c", "r", "i", "t", "i", "c", "a", "l">>,
      <<"u", "r", "g", "e", "n", "t">> }

\* Values a caller passes for a severity: None, "", the four levels, "Critical",
\* " High ", urgent.
SeverityInputs ==
    { None,
      <<>>,
      <<"l", "o", "w">>,
      <<"m", "e", "d", "i", "u", "m">>,
      <<"h", "i", "g", "h">>,
      <<"c", "r", "i", "t", "i", "c", "a", "l">>,
      <<"C", "r", "i", "t", "i", "c", "a", "l">>,
      <<" ", "H", "i", "g", "h", " ">>,
      <<"u", "r", "g", "e", "n", "t">> }

\* Values a caller passes for a category: None, "", the five categories,
\* " Network", "Identity_Access", database.
CategoryInputs ==
    { None,
      <<>>,
      <<"n", "e", "t", "w", "o", "r", "k">>,
      <<"i", "d", "e", "n", "t", "i", "t", "y", "_", "a", "c", "c", "e", "s", "s">>,
      <<"p", "l", "a", "t", "f", "o", "r", "m">>,
      <<"e", "m", "a", "i", "l", "_", "c", "o", "l", "l", "a", "b", "o", "r", "a", "t", "i", "o", "n">>,
      <<"g", "e", "n", "e", "r", "a", "l">>,
      <<" ", "N", "e", "t", "w", "o", "r", "k">>,
      <<"I", "d", "e", "n", "t", "i", "t", "y", "_", "A", "c", "c", "e", "s", "s">>,
      <<"d", "a", "t", "a", "b", "a", "s", "e">> }

\* Short descriptions: "VPN login issue", "Users cannot login (SSO error)",
\* "podcast app slow", "Outlook mailbox full", "printer jam", " WiFi down\n",
\* "Password Reset (Standard)", "lost vp", "docker and email", "".
Descriptions ==
    { <<"V", "P", "N", " ", "l", "o", "g", "i", "n", " ", "i", "s", "s", "u", "e">>,
      <<"U", "s", "e", "r", "s", " ", "c", "a", "n", "n", "o", "t", " ", "l", "o", "g", "i", "n", " ", "(", "S", "S", "O", " ", "e", "r", "r", "o", "r", ")">>,
      <<"p", "o", "d", "c", "a", "s", "t", " ", "a", "p", "p", " ", "s", "l", "o", "w">>,
      <<"O", "u", "t", "l", "o", "o", "k", " ", "m", "a", "i", "l", "b", "o", "x", " ", "f", "u", "l", "l">>,
      <<"p", "r", "i", "n", "t", "e", "r", " ", "j", "a", "m">>,
      <<" ", "W", "i", "F", "i", " ", "d", "o", "w", "n", "\n">>,
      <<"P", "a", "s", "s", "w", "o", "r", "d", " ", "R", "e", "s", "e", "t", " ", "(", "S", "t", "a", "n", "d", "a", "r", "d", ")">>,
      <<"l", "o", "s", "t", " ", "v", "p">>,
      <<"d", "o", "c", "k", "e", "r", " ", "a", "n", "d", " ", "e", "m", "a", "i", "l">>,
      <<>> }

\* Details: "", "n", "MFA prompt loops", "k8s pod restart".
Details ==
    { <<>>,
      <<"n">>,
      <<"M", "F", "A", " ", "p", "r", "o", "m", "p", "t", " ", "l", "o", "o", "p", "s">>,
      <<"k", "8", "s", " ", "p", "o", "d", " ", "r", "e", "s", "t", "a", "r", "t">> }

\* The largest max_results a caller passes; the smallest is -1.
MaxMaxResults == 11

MaxResultsInputs == (-1)..MaxMaxResults

---------------------------------------------------------------------------
(* The initial state: the module has just been imported *)

NoCall == [fn |-> "none", done |-> TRUE]

EmptyStore == [k \in {} |-> None]

\* How many workers serve create_research_plan calls at the same time.
NumThreads == 2

Threads == 1..NumThreads

\* A worker with no call in progress.
IdleThread == [pc |-> "idle"]

Init ==
    /\ _CASE_STORE = EmptyStore
    /\ audit_file = <<>>
    /\ clock = 0
    /\ call = NoCall
    /\ returned = <<>>
    /\ packs = <<>>
    /\ threads = [t \in Threads |-> IdleThread]

---------------------------------------------------------------------------
(* The tools and the resource *)

PolicyUri == "itsm://policies/incident-severity"

\* Faulty variant: customer_impacting is not looked at.
EscalationHint_severity_only(customer_impacting, severity) ==
    IF severity \in {critical, high}
    THEN "Escalate to on-call"
    ELSE "Handle in service desk queue"

\* should_escalate and the hint derived from it.
EscalationHint(customer_impacting, severity) ==
    LET should_escalate == customer_impacting \/ severity \in {critical, high}
    IN  IF should_escalate THEN "Escalate to on-call"
        ELSE "Handle in service desk queue"

\* The dict incident_pack builds and returns.
IncidentPack(short_description, details, impact, urgency, customer_impacting, max_kb_results) ==
    LET severity        == _severity_from_impact_urgency(impact, urgency)
        category        == _category_guess(JoinNewline(short_description, details))
        kb_ids          == _rank_kb(category, JoinNewline(short_description, details),
                                    max_kb_results)
    IN  [incident   |-> [summary            |-> Strip(short_description),
                         category           |-> category,
                         severity           |-> severity,
                         customer_impacting |-> customer_impacting,
                         escalation_hint    |-> EscalationHint(customer_impacting,
                                                               severity)],
         next_steps |-> _triage_next_steps(category, severity),
         resources  |-> [policy_uris |-> <<PolicyUri>>,
                         kb_uris     |-> [i \in 1..Len(kb_ids) |-> KbUri(kb_ids[i])]],
         notes      |-> "Client should fetch any URIs it wants via read_resource() and include in the prompt/context."]

\* Faulty variant: the pack is numbered by the records already in the audit file.
incident_pack_numbered(a) ==
    LET built == IncidentPack(a.short_description, a.details, a.impact, a.urgency,
                              a.customer_impacting, a.max_kb_results)
        pack  == [built EXCEPT !.notes = <<built.notes, Len(audit_file)>>]
    IN  /\ audit_file' = _audit(audit_file, _now_ms, "incident_pack",
                                [inputs |-> [short_description  |-> a.short_description,
                                             impact             |-> a.impact,
                                             urgency            |-> a.urgency,
                                             customer_impacting |-> a.customer_impacting],
                                 result |-> pack])
        /\ clock' = clock + 1
        /\ call' = [fn |-> "incident_pack", done |-> TRUE, args |-> a, ret |-> pack]
        /\ packs' = Append(packs, [args |-> a, ret |-> pack])
        /\ UNCHANGED <<_CASE_STORE, returned, threads>>

\* @mcp.tool incident_pack: builds the pack, appends one audit record, returns.
incident_pack(a) ==
    LET pack == IncidentPack(a.short_description, a.details, a.impact, a.urgency,
                             a.customer_impacting, a.max_kb_results)
    IN  /\ audit_file' = _audit(audit_file, _now_ms, "incident_pack",
                                [inputs |-> [short_description  |-> a.short_description,
                                             impact             |-> a.impact,
                                             urgency            |-> a.urgency,
                                             customer_impacting |-> a.customer_impacting],
                                 result |-> pack])
        /\ clock' = clock + 1
        /\ call' = [fn |-> "incident_pack", done |-> TRUE, args |-> a, ret |-> pack]
        /\ packs' = Append(packs, [args |-> a, ret |-> pack])
        /\ UNCHANGED <<_CASE_STORE, returned, threads>>

\* @mcp.tool create_research_plan, with hex the value uuid4().hex[:10] takes:
\* resolves category and severity, builds the plan, writes the store entry
\* under the new case id, appends one audit record, returns the result.
create_research_plan(a, hex) ==
    LET inferred_category == ResolveCategory(a.category, a.short_description, a.details)
        sev      == ResolveSeverity(a.severity, a.impact, a.urgency)
        case_id  == NewCaseId(hex)
        plan     == _build_research_plan(inferred_category, sev,
                                         a.short_description, a.details)
        entry    == [case_id           |-> case_id,
                     created_ts_ms     |-> _now_ms,
                     short_description |-> a.short_description,
                     details           |-> a.details,
                     plan              |-> plan]
        result   == [case_id      |-> case_id,
                     resource_uri |-> CaseUri(case_id),
                     category     |-> inferred_category,
                     severity     |-> sev,
                     summary      |-> "Research plan created. Fetch it via read_resource(resource_uri)."]
    IN  /\ _CASE_STORE' = StorePut(_CASE_STORE, case_id, entry)
        /\ audit_file' = _audit(audit_file, _now_ms + 1, "create_research_plan",
                                [inputs |-> [short_description |-> a.short_description],
                                 result |-> result])
        /\ clock' = clock + 2
        /\ call' = [fn |-> "create_research_plan", done |-> TRUE, args |-> a,
                    ret |-> result]
        /\ returned' = Append(returned, [case_id |-> case_id, plan |-> plan])
        /\ UNCHANGED <<packs, threads>>

\* @mcp.resource itsm://cases/{case_id}/research-plan: a lookup; it writes
\* neither the store nor the audit file.
case_research_plan(case_id) ==
    /\ call' = [fn |-> "case_research_plan", done |-> TRUE, args |-> case_id,
                ret |-> ReadPlan(_CASE_STORE, case_id)]
    /\ UNCHANGED <<_CASE_STORE, audit_file, clock, returned, packs, threads>>

---------------------------------------------------------------------------
(* The server: any sequence of calls, with a few inputs *)

\* How many tool calls (each appends one audit record) a run makes.
MaxCalls == 3

\* "VPN login issue" with nothing else given, and "printer jam" with severity
\* "Critical".
CreateInputs ==
    { [short_description |-> <<"V", "P", "N", " ", "l", "o", "g", "i", "n", " ",
                               "i", "s", "s", "u", "e">>,
       details |-> <<>>, category |-> None, severity |-> None,
       impact |-> None, urgency |-> None],
      [short_description |-> <<"p", "r", "i", "n", "t", "e", "r", " ", "j", "a", "m">>,
       details |-> <<>>, category |-> None,
       severity |-> <<"C", "r", "i", "t", "i", "c", "a", "l">>,
       impact |-> None, urgency |-> None] }

\* "Users cannot login (SSO error)" at high/high, and "printer jam" at low/low
\* for a customer.
PackInputs ==
    { [short_description |-> <<"U", "s", "e", "r", "s", " ", "c", "a", "n", "n", "o",
                               "t", " ", "l", "o", "g", "i", "n", " ", "(", "S", "S",
                               "O", " ", "e", "r", "r", "o", "r", ")">>,
       details |-> <<>>, impact |-> high, urgency |-> high,
       customer_impacting |-> FALSE, max_kb_results |-> 3],
      [short_description |-> <<"p", "r", "i", "n", "t", "e", "r", " ", "j", "a", "m">>,
       details |-> <<>>, impact |-> low, urgency |-> low,
       customer_impacting |-> TRUE, max_kb_results |-> 3] }

\* A case id no uuid of the model gives: "CASE-0000000009".
UnknownCaseId == CasePrefix \o [i \in 1..HexKept |-> IF i = HexKept THEN "9" ELSE "0"]

\* A case id as a client may send it, with whitespace around it.
Padded(case_id) == <<" ">> \o case_id \o <<"\n">>

\* The case ids a client reads: every id the server can give, bare and padded,
\* an id it never gives, and the empty string.
ReadInputs ==
    {NewCaseId(u) : u \in Uuids} \cup {Padded(NewCaseId(u)) : u \in Uuids}
        \cup {UnknownCaseId, <<>>}

Next ==
    \/ \E a \in CreateInputs, hex \in Uuids :
          Len(audit_file) < MaxCalls /\ create_research_plan(a, hex)
    \/ \E a \in PackInputs :
          Len(audit_file) < MaxCalls /\ incident_pack(a)
    \/ \E case_id \in ReadInputs :
          case_research_plan(case_id)

Spec == Init /\ [][Next]_vars

---------------------------------------------------------------------------
(* Concurrent callers: create_research_plan runs statement by statement *)

\* How many calls concurrent callers make in a run.
MaxConcCalls == 2

\* The calls that have started: the finished ones have an audit record, the
\* others are inside create_research_plan.
Started == Len(audit_file) + Cardinality({t \in Threads : threads[t].pc # "idle"})

\* Lines 279-288: the category and severity are resolved and the case id drawn.
create_allocate_id(t, a, hex) ==
    /\ threads[t].pc = "idle"
    /\ threads' = [threads EXCEPT ![t] =
          [pc                |-> "build",
           args              |-> a,
           inferred_category |-> ResolveCategory(a.category, a.short_description, a.details),
           sev               |-> ResolveSeverity(a.severity, a.impact, a.urgency),
           case_id           |-> NewCaseId(hex)]]
    /\ UNCHANGED <<_CASE_STORE, audit_file, clock, call, returned, packs>>

\* Lines 289-294: the plan is built from the thread's own locals.
create_build_plan(t) ==
    /\ threads[t].pc = "build"
    /\ threads' = [threads EXCEPT ![t] =
          [pc                |-> "store",
           args              |-> threads[t].args,
           inferred_category |-> threads[t].inferred_category,
           sev               |-> threads[t].sev,
           case_id           |-> threads[t].case_id,
           plan              |-> _build_research_plan(threads[t].inferred_category,
                                                      threads[t].sev,
                                                      threads[t].args.short_description,
                                                      threads[t].args.details)]]
    /\ UNCHANGED <<_CASE_STORE, audit_file, clock, call, returned, packs>>

\* Lines 296-302: the entry is written to the store under the thread's case id.
create_store(t) ==
    /\ threads[t].pc = "store"
    /\ _CASE_STORE' = StorePut(_CASE_STORE, threads[t].case_id,
                               [case_id           |-> threads[t].case_id,
                                created_ts_ms     |-> _now_ms,
                                short_description |-> threads[t].args.short_description,
                                details           |-> threads[t].args.details,
                                plan              |-> threads[t].plan])
    /\ clock' = clock + 1
    /\ threads' = [threads EXCEPT ![t].pc = "audit"]
    /\ UNCHANGED <<audit_file, call, returned, packs>>

\* Lines 304-313: the result is built, audited and returned.
create_audit_return(t) ==
    LET case_id == threads[t].case_id
        result  == [case_id      |-> case_id,
                    resource_uri |-> CaseUri(case_id),
                    category     |-> threads[t].inferred_category,
                    severity     |-> threads[t].sev,
                    summary      |-> "Research plan created. Fetch it via read_resource(resource_uri)."]
    IN  /\ threads[t].pc = "audit"
        /\ audit_file' = _audit(audit_file, _now_ms, "create_research_plan",
                                [inputs |-> [short_description |-> threads[t].args.short_description],
                                 result |-> result])
        /\ clock' = clock + 1
        /\ call' = [fn |-> "create_research_plan", done |-> TRUE,
                    args |-> threads[t].args, ret |-> result]
        /\ returned' = Append(returned, [case_id |-> case_id, plan |-> threads[t].plan])
        /\ threads' = [threads EXCEPT ![t] = IdleThread]
        /\ UNCHANGED <<_CASE_STORE, packs>>

\* The case id read while creates are running: the first the server can give.
ConcReadInputs == {NewCaseId(Uuid4Hex(1))}

\* The pack built while creates are running: the one for a customer.
ConcPackInputs == {a \in PackInputs : a.customer_impacting}

NextConc ==
    \/ \E t \in Threads, a \in CreateInputs, hex \in Uuids :
          Started < MaxConcCalls /\ create_allocate_id(t, a, hex)
    \/ \E t \in Threads : create_build_plan(t)
    \/ \E t \in Threads : create_store(t)
    \/ \E t \in Threads : create_audit_return(t)
    \/ \E a \in ConcPackInputs :
          Started < MaxConcCalls /\ incident_pack(a)
    \/ \E case_id \in ConcReadInputs :
          case_research_plan(case_id)

SpecConc == Init /\ [][NextConc]_vars

---------------------------------------------------------------------------
(* One tool call on a fresh server, with many inputs *)

\* "VPN login issue", "printer jam", "lost vp".
FacadeDescriptions ==
    { <<"V", "P", "N", " ", "l", "o", "g", "i", "n", " ", "i", "s", "s", "u", "e">>,
      <<"p", "r", "i", "n", "t", "e", "r", " ", "j", "a", "m">>,
      <<"l", "o", "s", "t", " ", "v", "p">> }

\* "", "n".
FacadeDetails == { <<>>, <<"n">> }

\* None, "", " HIGH\n", medium, urgent.
FacadeEnumInputs ==
    { None,
      <<>>,
      <<" ", "H", "I", "G", "H", "\n">>,
      <<"m", "e", "d", "i", "u", "m">>,
      <<"u", "r", "g", "e", "n", "t">> }

FacadeCreateInputs ==
    {a \in [short_description : FacadeDescriptions, details : FacadeDetails,
            category : CategoryInputs, severity : SeverityInputs,
            impact : FacadeEnumInputs, urgency : FacadeEnumInputs] :
        a.details = <<"n">> <=> a.short_description = <<"l", "o", "s", "t", " ", "v", "p">>}

FacadePackInputs ==
    [short_description : Descriptions, details : FacadeDetails,
     impact : FacadeEnumInputs, urgency : FacadeEnumInputs,
     customer_impacting : BOOLEAN, max_kb_results : {0, 1, 3}]

NextFacade ==
    \/ /\ audit_file = <<>>
       /\ \E a \in FacadeCreateInputs, hex \in Uuids : create_research_plan(a, hex)
    \/ /\ audit_file = <<>>
       /\ \E a \in FacadePackInputs : incident_pack(a)

SpecFacade == Init /\ [][NextFacade]_vars

---------------------------------------------------------------------------
(* Calls of the pure functions.  A call starts with its arguments bound and *)
(* returns in one step; nothing but the result changes.                    *)

\* The text both tools classify and rank: f"{short_description}\n{details}".
Texts == {JoinNewline(d, e) : d \in Descriptions, e \in Details}

\* The calls a caller can make, arguments bound, not yet returned.
PendingCalls ==
    [fn : {"_severity_from_impact_urgency"}, impact : EnumInputs,
     urgency : EnumInputs, done : {FALSE}]
    \cup [fn : {"_category_guess"}, text : Texts \cup {None}, done : {FALSE}]
    \cup [fn : {"_rank_kb"}, category : CategoryInputs, query_text : Texts,
          max_results : MaxResultsInputs, done : {FALSE}]
    \cup [fn : {"_triage_next_steps"}, category : CategoryInputs,
          severity : SeverityInputs, done : {FALSE}]
    \cup [fn : {"_build_research_plan"}, category : CategoryInputs,
          severity : SeverityInputs, short_description : Descriptions,
          details : Details, done : {FALSE}]

InitFn ==
    /\ _CASE_STORE = EmptyStore
    /\ audit_file = <<>>
    /\ clock = 0
    /\ call \in PendingCalls
    /\ returned = <<>>
    /\ packs = <<>>
    /\ threads = [t \in Threads |-> IdleThread]

\* The record of a returned call: its arguments and its result.
Returned(c, ret) ==
    [f \in DOMAIN c \cup {"ret"} |->
        IF f = "ret" THEN ret ELSE IF f = "done" THEN TRUE ELSE c[f]]

ReturnSeverity ==
    /\ call.fn = "_severity_from_impact_urgency" /\ ~call.done
    /\ call' = Returned(call, _severity_from_impact_urgency(call.impact, call.urgency))
    /\ UNCHANGED <<_CASE_STORE, audit_file, clock, returned, packs, threads>>

ReturnCategoryGuess ==
    /\ call.fn = "_category_guess" /\ ~call.done
    /\ call' = Returned(call, _category_guess(call.text))
    /\ UNCHANGED <<_CASE_STORE, audit_file, clock, returned, packs, threads>>

ReturnRankKb ==
    /\ call.fn = "_rank_kb" /\ ~call.done
    /\ call' = Returned(call, _rank_kb(call.category, call.query_text, call.max_results))
    /\ UNCHANGED <<_CASE_STORE, audit_file, clock, returned, packs, threads>>

ReturnNextSteps ==
    /\ call.fn = "_triage_next_steps" /\ ~call.done
    /\ call' = Returned(call, _triage_next_steps(call.category, call.severity))
    /\ UNCHANGED <<_CASE_STORE, audit_file, clock, returned, packs, threads>>

ReturnBuildPlan ==
    /\ call.fn = "_build_research_plan" /\ ~call.done
    /\ call' = Returned(call, _build_research_plan(call.category, call.severity,
                                                   call.short_description, call.details))
    /\ UNCHANGED <<_CASE_STORE, audit_file, clock, returned, packs, threads>>

NextFn ==
    \/ ReturnSeverity
    \/ ReturnCategoryGuess
    \/ ReturnRankKb
    \/ ReturnNextSteps
    \/ ReturnBuildPlan

SpecFn == InitFn /\ [][NextFn]_vars

---------------------------------------------------------------------------
(* Properties of the pure functions, under SpecFn *)

\* A value trimmed and lower-cased, None read as the empty string.
TrimLower(s) == Lower(Strip(IF s = None THEN <<>> ELSE s))

Escalated == {critical, high}

Done(fn) == call.fn = fn /\ call.done

\* C4: for every (impact, urgency), trimmed and lower-cased, the severity is
\* critical for (high, high); high for (high, medium|low) and (medium|low, high);
\* medium for (medium, medium); low for every other pair, unrecognized and
\* empty values included.  Every input gets one of the four levels.
C4_SeverityMatrix ==
    Done("_severity_from_impact_urgency") =>
        LET i == TrimLower(call.impact)
            u == TrimLower(call.urgency)
        IN  call.ret =
                CASE i = high /\ u = high -> critical
                  [] i = high /\ u \in {medium, low} -> high
                  [] i \in {medium, low} /\ u = high -> high
                  [] i = medium /\ u = medium -> medium
                  [] OTHER -> low

\* C4 witness: an urgency that needs trimming and lower-casing, with a
\* medium impact, has been rated high.
C4_Witness ==
    /\ Done("_severity_from_impact_urgency")
    /\ call.impact = medium
    /\ call.urgency = <<" ", "H", "I", "G", "H", "\n">>
    /\ call.ret = high

\* The keyword families in the order the classifier tries them.
Families ==
    << [name |-> network, keywords |-> NetworkKeywords],
       [name |-> identity_access, keywords |-> IdentityKeywords],
       [name |-> platform, keywords |-> PlatformKeywords],
       [name |-> email_collaboration, keywords |-> EmailKeywords] >>

\* The families with a keyword that is a substring of the lower-cased text.
Matching(text) ==
    {f \in 1..Len(Families) :
        \E k \in 1..Len(Families[f].keywords) :
            Contains(Lower(IF text = None THEN <<>> ELSE text), Families[f].keywords[k])}

\* C5: the category is the earliest family, in the order network,
\* identity_access, platform, email_collaboration, with a keyword contained in
\* the lower-cased text, and general when no family matches.
C5_FirstMatchWins ==
    Done("_category_guess") =>
        LET m == Matching(call.text)
        IN  IF m = {} THEN call.ret = general
            ELSE call.ret = Families[CHOOSE f \in m : \A g \in m : f <= g].name

\* C5 witness: a text with keywords of two families has been classified as
\* the earlier one.
C5_Witness ==
    /\ Done("_category_guess")
    /\ call.text # None
    /\ {1, 2} \subseteq Matching(call.text)
    /\ call.ret = network

\* max(1, min(max_results, 10)) as the claim states it.
Clamp(n, lo, hi) == IF n < lo THEN lo ELSE IF n > hi THEN hi ELSE n

\* The catalog entry with a given id.
Article(aid) == _kb_catalog[CHOOSE i \in 1..Len(_kb_catalog) : _kb_catalog[i].id = aid]

\* The score of an article for a ranking call's category and text.
ScoreOf(aid, category, query_text) ==
    ArticleScore(Article(aid), TrimLower(category), Lower(query_text))

\* C6: every id rank_kb returns has a score > 0, ids are not repeated, and
\* there are at most clamp(max_results, 1, 10) of them.
C6_RankOnlyPositive ==
    Done("_rank_kb") =>
        /\ \A i \in 1..Len(call.ret) :
              ScoreOf(call.ret[i], call.category, call.query_text) > 0
        /\ \A i, j \in 1..Len(call.ret) : call.ret[i] = call.ret[j] => i = j
        /\ Len(call.ret) <= Clamp(call.max_results, 1, 10)

\* C6 witness: a ranking with room for every article has returned fewer ids
\* than the catalog holds, leaving a score-0 article out.
C6_Witness ==
    /\ Done("_rank_kb")
    /\ call.max_results > 10
    /\ Len(call.ret) \in 1..(Len(_kb_catalog) - 1)
    /\ \E i \in 1..Len(_kb_catalog) :
          ScoreOf(_kb_catalog[i].id, call.category, call.query_text) = 0

\* The place of an article in the catalog: 1 for kb-1001, 2 for kb-2001, 3 for
\* kb-3001.
CatalogIndex(aid) == CHOOSE i \in 1..Len(_kb_catalog) : _kb_catalog[i].id = aid

\* C15: the ids rank_kb returns are in non-increasing order of score (3 for a
\* category match, 2 per tag contained in the lower-cased text, 1 for the
\* lower-cased title contained in it), and ids of equal score are in catalog
\* order.
C15_RankOrder ==
    Done("_rank_kb") =>
        \A i, j \in 1..Len(call.ret) :
            i < j =>
                LET si == ScoreOf(call.ret[i], call.category, call.query_text)
                    sj == ScoreOf(call.ret[j], call.category, call.query_text)
                IN  \/ si > sj
                    \/ si = sj /\ CatalogIndex(call.ret[i]) < CatalogIndex(call.ret[j])

\* C15 witness: a ranking has returned two ids of equal score and a third of
\* another score.
C15_Witness ==
    /\ Done("_rank_kb")
    /\ Len(call.ret) = 3
    /\ \E i, j \in 1..3 :
          /\ i < j
          /\ ScoreOf(call.ret[i], call.category, call.query_text)
                = ScoreOf(call.ret[j], call.category, call.query_text)
    /\ \E i, j \in 1..3 :
          ScoreOf(call.ret[i], call.category, call.query_text)
            # ScoreOf(call.ret[j], call.category, call.query_text)

\* The article's categories contain the ranking call's category.
CategoryMatch(aid, category) == InList(TrimLower(category), Article(aid).categories)

\* The ids of the catalog.
CatalogIds == {_kb_catalog[i].id : i \in 1..Len(_kb_catalog)}

\* The ids a ranking call has returned.
RankedIds == {call.ret[i] : i \in 1..Len(call.ret)}

\* C19 as stated: in a rank_kb result an article whose categories contain the
\* query category is never after an article whose categories do not, and is
\* never left out while such an article is returned.
C19_MatchBeforeAnyNonMatch ==
    Done("_rank_kb") =>
        /\ \A i, j \in 1..Len(call.ret) :
              (i < j /\ CategoryMatch(call.ret[j], call.category))
                 => CategoryMatch(call.ret[i], call.category)
        /\ \A m \in CatalogIds \ RankedIds :
              CategoryMatch(m, call.category)
                 => \A n \in RankedIds : CategoryMatch(n, call.category)

\* The weight of a category match in the score.
CategoryWeight == 3

\* An article that does not match the category and whose tags and title score
\* less than a category match does.
WeakNonMatch(aid) ==
    /\ ~CategoryMatch(aid, call.category)
    /\ ScoreOf(aid, call.category, call.query_text) < CategoryWeight

\* C19, amended: in a rank_kb result an article whose categories contain the
\* query category is never after, and never left out in favour of, a
\* non-matching article whose tag and title matches score less than 3; a
\* non-matching article scoring 3 or more can come first or take its place.
C19_MatchBeforeWeakNonMatch ==
    Done("_rank_kb") =>
        /\ \A i, j \in 1..Len(call.ret) :
              (i < j /\ CategoryMatch(call.ret[j], call.category))
                 => ~WeakNonMatch(call.ret[i])
        /\ \A m \in CatalogIds \ RankedIds :
              CategoryMatch(m, call.category)
                 => \A n \in RankedIds : ~WeakNonMatch(n)

\* C19 witness: a ranking has returned a matching article first and a weaker
\* non-matching article after it.
C19_Witness ==
    /\ Done("_rank_kb")
    /\ Len(call.ret) >= 2
    /\ CategoryMatch(call.ret[1], call.category)
    /\ WeakNonMatch(call.ret[2])

\* C7: the next-steps list has 3 to 4 elements; for a severity that is, trimmed
\* and lower-cased, critical or high, its first element is the incident-bridge
\* step; for any other severity that step is not in the list.
C7_NextStepsBound ==
    Done("_triage_next_steps") =>
        /\ Len(call.ret) <= 4
        /\ Len(call.ret) >= 3
        /\ TrimLower(call.severity) \in Escalated => call.ret[1] = BridgeStep
        /\ TrimLower(call.severity) \notin Escalated =>
              \A i \in 1..Len(call.ret) : call.ret[i] # BridgeStep

\* C7 witness: a severity written " High " has put the bridge step first.
C7_Witness ==
    /\ Done("_triage_next_steps")
    /\ call.severity = <<" ", "H", "i", "g", "h", " ">>
    /\ call.ret[1] = BridgeStep
    /\ Len(call.ret) = 4

\* The categories with a step of their own, and that step.
DedicatedStep ==
    [c \in {identity_access, network, platform} |->
        IF c = identity_access THEN "Check IdP logs and recent SSO config/cert changes"
        ELSE IF c = network THEN "Check VPN/DNS health and region-specific impact"
        ELSE "Check recent deploys and service error-rate/latency graphs"]

GenericStep == "Identify any recent changes and known workarounds"

\* C16: for a severity other than critical/high the list is the three base
\* steps followed by one category step, the dedicated one for identity_access,
\* network and platform and the generic one for every other category; for
\* critical/high it is the bridge step followed by the three base steps, with
\* no category step.
C16_NextStepsComposition ==
    Done("_triage_next_steps") =>
        LET cat  == TrimLower(call.category)
            step == IF cat \in DOMAIN DedicatedStep THEN DedicatedStep[cat]
                    ELSE GenericStep
        IN  IF TrimLower(call.severity) \in Escalated
            THEN call.ret = <<BridgeStep>> \o BaseSteps
            ELSE call.ret = BaseSteps \o <<step>>

\* C16 witness: a critical identity_access incident has the bridge step and the
\* base steps, and not the IdP step.
C16_Witness ==
    /\ Done("_triage_next_steps")
    /\ TrimLower(call.category) = identity_access
    /\ TrimLower(call.severity) = critical
    /\ Len(call.ret) = 4
    /\ call.ret[4] = BaseSteps[3]
    /\ \A i \in 1..4 : call.ret[i] # DedicatedStep[identity_access]

\* C8: a plan built with severity critical or high has, against the plan built
\* for the same category and text with any non-escalated severity, one more
\* check and one more evidence item, the extra one first and the rest equal
\* and in the same order; the hypotheses are the same.
C8_EscalationGrowth ==
    (Done("_build_research_plan") /\ TrimLower(call.severity) \in Escalated) =>
        \A s \in SeverityInputs :
            TrimLower(s) \notin Escalated =>
                LET plain == _build_research_plan(call.category, s,
                                                  call.short_description, call.details)
                IN  /\ Len(call.ret.checks) = Len(plain.checks) + 1
                    /\ Tail(call.ret.checks) = plain.checks
                    /\ Len(call.ret.evidence_to_collect)
                          = Len(plain.evidence_to_collect) + 1
                    /\ Tail(call.ret.evidence_to_collect) = plain.evidence_to_collect
                    /\ call.ret.hypotheses = plain.hypotheses

\* C8 witness: an escalated platform plan has been built, with four checks.
C8_Witness ==
    /\ Done("_build_research_plan")
    /\ call.category = platform
    /\ call.severity = <<"C", "r", "i", "t", "i", "c", "a", "l">>
    /\ Len(call.ret.checks) = 4
    /\ call.ret.checks[1] = PlanBridgeCheck

---------------------------------------------------------------------------
(* Properties of the case store, under Spec *)

\* The case ids create_research_plan has returned so far.
ReturnedIds == {returned[i].case_id : i \in 1..Len(returned)}

\* The plan passed to the store by the latest call that returned case_id.
LatestPlan(case_id) ==
    LET calls == {i \in 1..Len(returned) : returned[i].case_id = case_id}
    IN  returned[CHOOSE i \in calls : \A j \in calls : j <= i].plan

\* C1: every create_plan call has returned a case_id different from all
\* returned before, the store holds exactly one Case per call, and each call's
\* Case is still in the store under its id with the plan stored for it.
C1_UniqueIdsNoOverwrite ==
    /\ \A i, j \in 1..Len(returned) :
          i # j => returned[i].case_id # returned[j].case_id
    /\ Cardinality(DOMAIN _CASE_STORE) = Len(returned)
    /\ \A i \in 1..Len(returned) :
          /\ returned[i].case_id \in DOMAIN _CASE_STORE
          /\ _CASE_STORE[returned[i].case_id].plan = returned[i].plan

\* "- x" lines read back as the items x.
Unbullet(lines) == [i \in 1..Len(lines) |-> lines[i][2]]

\* The plan a rendered research plan shows, field by field.
PlanShown(text) ==
    [category            |-> text[6],
     severity            |-> text[7],
     incident_context    |-> text[4],
     hypotheses          |-> Unbullet(text[9]),
     checks              |-> Unbullet(text[11]),
     evidence_to_collect |-> Unbullet(text[13]),
     note                |-> text[15]]

C3_NotFoundForAnyUnreturnedString ==
    [][\A case_id \in ReadInputs :
          (case_research_plan(case_id) /\ case_id \notin ReturnedIds) =>
              /\ call'.ret[1] = NotFoundText
              /\ UNCHANGED <<_CASE_STORE, audit_file>>]_vars

\* C3, amended: a get_plan with a case_id whose whitespace-trimmed value no
\* create_plan call has returned yields the NotFound text, which differs from
\* a found plan's text from its first piece on, and leaves the store and the
\* audit log unchanged.
C3_NotFoundForUnreturnedId ==
    [][\A case_id \in ReadInputs :
          (case_research_plan(case_id) /\ Strip(case_id) \notin ReturnedIds) =>
              /\ call'.ret[1] = NotFoundText
              /\ call'.ret[1] # FoundText
              /\ UNCHANGED <<_CASE_STORE, audit_file>>]_vars

\* C3 witness: with a case in the store, a get_plan for an id never returned
\* has answered NotFound.
C3_Witness ==
    /\ Done("case_research_plan")
    /\ returned # <<>>
    /\ Strip(call.args) \notin ReturnedIds
    /\ call.ret[1] = NotFoundText

\* C12: two incident_pack calls with identical inputs return identical packs,
\* whatever calls were made before or between them.
C12_PackDeterministic ==
    \A i, j \in 1..Len(packs) :
        packs[i].args = packs[j].args => packs[i].ret = packs[j].ret

\* The event types of the audit records, in the order appended.
AuditEvents == [i \in 1..Len(audit_file) |-> audit_file[i].event_type]

\* C12 witness: the same pack has been asked for twice, with a
\* create_research_plan between the two calls.
C12_Witness ==
    /\ Len(packs) = 2
    /\ packs[1].args = packs[2].args
    /\ AuditEvents = <<"incident_pack", "create_research_plan", "incident_pack">>
    /\ DOMAIN _CASE_STORE # {}

\* C17: build_incident_pack and get_plan leave the Case Store unchanged,
\* create_plan changes it only at the case_id it returns, and no step removes
\* a key.
C17_StoreFrame ==
    [][/\ DOMAIN _CASE_STORE \subseteq DOMAIN _CASE_STORE'
       /\ (call'.fn \in {"incident_pack", "case_research_plan"})
             => _CASE_STORE' = _CASE_STORE
       /\ (call'.fn = "create_research_plan")
             => /\ DOMAIN _CASE_STORE' = DOMAIN _CASE_STORE \cup {call'.ret.case_id}
                /\ \A k \in DOMAIN _CASE_STORE :
                      k # call'.ret.case_id => _CASE_STORE'[k] = _CASE_STORE[k]]_vars

\* C17 witness: with two Cases stored and a pack built, a read of an unknown id
\* has been answered.
C17_Witness ==
    /\ Cardinality(DOMAIN _CASE_STORE) = 2
    /\ Len(packs) = 1
    /\ call.fn = "case_research_plan"
    /\ call.args = UnknownCaseId

---------------------------------------------------------------------------
(* Properties of concurrent callers, under SpecConc *)

\* C13: under every interleaving of the steps of concurrent create_plan calls
\* with get_plan and build_incident_pack calls, every completed create_plan's
\* Case is in the store under its returned case_id, with the description,
\* details and plan of that call.
C13_NoCaseLostOrMixed ==
    \A i \in 1..Len(returned) :
        /\ returned[i].case_id \in DOMAIN _CASE_STORE
        /\ \E a \in CreateInputs :
              /\ returned[i].plan =
                    _build_research_plan(
                        ResolveCategory(a.category, a.short_description, a.details),
                        ResolveSeverity(a.severity, a.impact, a.urgency),
                        a.short_description, a.details)
              /\ _CASE_STORE[returned[i].case_id].plan = returned[i].plan
              /\ _CASE_STORE[returned[i].case_id].short_description = a.short_description
              /\ _CASE_STORE[returned[i].case_id].details = a.details

IsCreateRecord(r) == r.event_type = "create_research_plan"

IsPackRecord(r) == r.event_type = "incident_pack"

\* The audit records of create_research_plan, in the order appended.
CreateRecords == SelectSeq(audit_file, IsCreateRecord)

\* The audit records of incident_pack, in the order appended.
PackRecords == SelectSeq(audit_file, IsPackRecord)

\* The audit file holds one record per completed call and nothing else, and
\* every case id it names is in the store.
OneRecordPerDecision ==
    /\ Len(audit_file) = Len(CreateRecords) + Len(PackRecords)
    /\ Len(CreateRecords) = Len(returned)
    /\ \A i \in 1..Len(returned) :
          /\ CreateRecords[i].payload.result.case_id = returned[i].case_id
          /\ returned[i].case_id \in DOMAIN _CASE_STORE
    /\ Len(PackRecords) = Len(packs)
    /\ \A i \in 1..Len(packs) : PackRecords[i].payload.result = packs[i].ret

\* A step of get_plan: no thread moves and neither history grows, and the call
\* observed is a read.
GetPlanStep ==
    /\ call'.fn = "case_research_plan"
    /\ UNCHANGED <<threads, returned, packs>>

\* C14: the audit file holds exactly one record for each completed
\* build_incident_pack and create_plan call, a create_plan record is appended
\* only once its Case is in the store, records already appended are never
\* changed or removed, and a get_plan step appends none.
C14_OneAuditRecordPerDecision ==
    /\ OneRecordPerDecision
    /\ [][/\ OneRecordPerDecision'
          /\ Len(audit_file') >= Len(audit_file)
          /\ SubSeq(audit_file', 1, Len(audit_file)) = audit_file
          /\ Len(audit_file') <= Len(audit_file) + 1
          /\ (\A t \in Threads : threads[t].pc \in {"build", "store"}
                                    => threads'[t].pc # "idle")
          /\ GetPlanStep => audit_file' = audit_file]_vars

\* C14 witness: one create has completed and has its record, a second one has
\* stored its Case and not yet appended its record, and a read was served last.
C14_Witness ==
    /\ Len(returned) = 1
    /\ Len(CreateRecords) = 1
    /\ \E t \in Threads : threads[t].pc = "audit"
    /\ call.fn = "case_research_plan"

---------------------------------------------------------------------------
(* Properties of the tools' resolution of their inputs, under SpecFacade *)

Severities == {low, medium, high, critical}

Levels == {low, medium, high}

Categories == {network, identity_access, platform, email_collaboration, general}

\* C9: a call with an impact, urgency, severity or category outside the
\* recognized set gets severity low and category general, in the result and
\* in the stored plan.
C9_InvalidInputsDefaulted ==
    /\ Done("create_research_plan") =>
          LET a    == call.args
              plan == _CASE_STORE[call.ret.case_id].plan
          IN  /\ (Truthy(a.severity) /\ TrimLower(a.severity) \notin Severities) =>
                    (call.ret.severity = low /\ plan.severity = low)
              /\ (~Truthy(a.severity) /\ Truthy(a.impact) /\ Truthy(a.urgency)
                     /\ (TrimLower(a.impact) \notin Levels
                            \/ TrimLower(a.urgency) \notin Levels)) =>
                    (call.ret.severity = low /\ plan.severity = low)
              /\ (Truthy(a.category) /\ TrimLower(a.category) \notin Categories) =>
                    (call.ret.category = general /\ plan.category = general)
    /\ (Done("incident_pack")
           /\ (TrimLower(call.args.impact) \notin Levels
                  \/ TrimLower(call.args.urgency) \notin Levels)) =>
          call.ret.incident.severity = low

\* C10 as stated: the severity is the supplied severity when one is given,
\* else the matrix result when impact and urgency are both given, else medium;
\* the category is the supplied category when one is given, else the
\* classifier's result on the description and details.
C10_ResolutionVerbatim ==
    Done("create_research_plan") =>
        LET a == call.args
        IN  /\ call.ret.severity =
                  IF Truthy(a.severity) THEN a.severity
                  ELSE IF Truthy(a.impact) /\ Truthy(a.urgency)
                       THEN _severity_from_impact_urgency(a.impact, a.urgency)
                  ELSE medium
            /\ call.ret.category =
                  IF Truthy(a.category) THEN a.category
                  ELSE _category_guess(JoinNewline(a.short_description, a.details))

\* C10, amended: the severity is the supplied severity, trimmed and
\* lower-cased, when a non-empty one is given, else the matrix result when
\* non-empty impact and urgency are both given, else medium; the category is
\* the supplied category when a non-empty one is given, else the classifier's
\* result on the description and details joined by a newline.
C10_Resolution ==
    Done("create_research_plan") =>
        LET a == call.args
        IN  /\ call.ret.severity =
                  IF Truthy(a.severity) THEN TrimLower(a.severity)
                  ELSE IF Truthy(a.impact) /\ Truthy(a.urgency)
                       THEN _severity_from_impact_urgency(a.impact, a.urgency)
                  ELSE medium
            /\ call.ret.category =
                  IF Truthy(a.category) THEN a.category
                  ELSE _category_guess(JoinNewline(a.short_description, a.details))

\* C10 witness: a call giving severity " High " together with impact and
\* urgency has returned severity high, the supplied one, not the matrix's.
C10_Witness ==
    /\ Done("create_research_plan")
    /\ call.args.severity = <<" ", "H", "i", "g", "h", " ">>
    /\ call.args.impact = medium
    /\ call.args.urgency = medium
    /\ call.args.category = None
    /\ call.ret.severity = high
    /\ call.ret.category = network

\* C11: the escalation hint of an incident pack is "Escalate to on-call"
\* exactly when customer_impacting is true or the derived severity is critical
\* or high, and "Handle in service desk queue" otherwise, whatever the
\* category, the text and the KB results are.
C11_EscalationHint ==
    Done("incident_pack") =>
        /\ call.ret.incident.severity
              = _severity_from_impact_urgency(call.args.impact, call.args.urgency)
        /\ call.ret.incident.escalation_hint =
              IF call.args.customer_impacting
                    \/ call.ret.incident.severity \in Escalated
              THEN "Escalate to on-call"
              ELSE "Handle in service desk queue"

\* C11 witness: a pack of low severity for a customer-impacting incident has
\* been told to escalate.
C11_Witness ==
    /\ Done("incident_pack")
    /\ call.args.customer_impacting
    /\ call.ret.incident.severity = low
    /\ call.ret.incident.escalation_hint = "Escalate to on-call"

\* C18: the category and severity create_plan returns are the category and
\* severity of the plan stored under the returned case_id, whatever letter
\* case or surrounding whitespace the supplied values have.
C18_ReturnedMatchesStored ==
    Done("create_research_plan") =>
        /\ call.ret.case_id \in DOMAIN _CASE_STORE
        /\ call.ret.category = _CASE_STORE[call.ret.case_id].plan.category
        /\ call.ret.severity = _CASE_STORE[call.ret.case_id].plan.severity

===========================================================================
